---- MODULE Spec2Model ----
(***************************************************************************)
(* A model of kanils: the StorageHandle facade of src/src/handle.rs (the   *)
(* key/value operations and the metrics-server lifecycle) and the command  *)
(* line front end of src/src/main.rs (the REPL dispatcher handle_input and *)
(* the benchmark sizing create_storage_for_benchmark).                     *)
(*                                                                         *)
(* The storage engine (the cannyls crate) and the fibers runtime are       *)
(* external collaborators.  The engine is modelled from the interface the  *)
(* facade consumes (spec.md section 6 and the doc comments of handle.rs);  *)
(* an engine call may report an error at any time.                         *)
(*                                                                         *)
(* Text is a sequence of Unicode code points, bytes are 0..255, a u128 key *)
(* is a natural number.                                                    *)
(***************************************************************************)
EXTENDS Integers, Sequences, FiniteSets, TLC

VARIABLES
    storage,    \* the engine's lumps: a function LumpId -> bytes (handle.storage)
    tx,         \* handle.tx: 0 for None, else the index of the channel held
    port,       \* handle.port: -1 for None, else the port recorded
    exporters,  \* the fibers spawned by start_metrics_server, with their channels
    written,    \* history: key -> text of the last successful put_str not yet targeted again
    deleted,    \* history: keys whose last targeting call was a delete_key returning true
    ret,        \* what the last call returned or reported
    panic,      \* "none", or the source line at which the process panicked
    repl,       \* the Open loop of main: "off" (not in Open), "reading" or "exited"
    bench,      \* the benchmark sizing: inputs and the result of create_storage_for_benchmark
    opt         \* main: the command line, its parse by Opt::from_args and the command run

vars == <<storage, tx, port, exporters, written, deleted, ret, panic, repl, bench, opt>>

----------------------------------------------------------------------------
(* Bounds of the model *)

\* keys are 0..MaxKey
MaxKey == 1
\* a text value has 1..MaxLen characters
MaxLen == 1

\* the characters of the values: NUL (one byte in UTF-8) and e-acute (two bytes)
Chars == {0, 233}

Keys == 0..MaxKey

RECURSIVE StringsUpTo(_)
StringsUpTo(n) ==
    IF n = 0 THEN {<<>>}
    ELSE LET shorter == StringsUpTo(n - 1)
         IN shorter \cup {Append(s, c) : s \in {t \in shorter : Len(t) = n - 1}, c \in Chars}

\* the non-empty values the operations are called with
Values == StringsUpTo(MaxLen) \ {<<>>}

----------------------------------------------------------------------------
(* Option and Result *)

None == [some |-> FALSE]
Some(x) == [some |-> TRUE, val |-> x]
Err == [ok |-> FALSE]
Ok(x) == [ok |-> TRUE, val |-> x]

Range(s) == {s[i] : i \in DOMAIN s}

----------------------------------------------------------------------------
(* The facade over a fresh storage, as in the tests of handle.rs *)

\* the argument recorded for a call that takes none
NoArg == -1

NoCall == [op |-> "none", arg |-> NoArg, res |-> Err]

EmptyStorage == [k \in {} |-> <<>>]

\* StorageHandle::new / StorageHandle::create
HandleInit ==
    /\ storage = EmptyStorage
    /\ tx = 0
    /\ port = -1
    /\ exporters = <<>>
    /\ written = EmptyStorage
    /\ deleted = {}
    /\ ret = NoCall
    /\ panic = "none"

\* the benchmark record of a process that runs no benchmark
NoBench == [phase |-> "off"]

\* the command line of a process whose command line is not looked at
NoOpt == [phase |-> "off"]

Init ==
    /\ HandleInit
    /\ repl = "off"
    /\ bench = NoBench
    /\ opt = NoOpt

----------------------------------------------------------------------------
(* str::as_bytes and String::from_utf8: UTF-8 *)

\* the UTF-8 encoding of one code point (up to three bytes)
Utf8Char(c) ==
    IF c < 128 THEN <<c>>
    ELSE IF c < 2048 THEN <<192 + (c \div 64), 128 + (c % 64)>>
    ELSE <<224 + (c \div 4096), 128 + ((c \div 64) % 64), 128 + (c % 64)>>

RECURSIVE as_bytes(_)
as_bytes(s) == IF s = <<>> THEN <<>> ELSE Utf8Char(Head(s)) \o as_bytes(Tail(s))

IsCont(b) == b >= 128 /\ b <= 191

\* String::from_utf8: Err on a byte sequence that is not UTF-8
RECURSIVE from_utf8(_)
from_utf8(b) ==
    IF b = <<>> THEN Ok(<<>>)
    ELSE LET n == Len(b)
             step(k, c) ==
                 LET rest == from_utf8(SubSeq(b, k + 1, n))
                 IN IF rest.ok THEN Ok(<<c>> \o rest.val) ELSE Err
         IN IF b[1] < 128 THEN step(1, b[1])
            ELSE IF b[1] >= 194 /\ b[1] <= 223 /\ n >= 2 /\ IsCont(b[2])
                 THEN step(2, (b[1] - 192) * 64 + (b[2] - 128))
            ELSE IF b[1] >= 224 /\ b[1] <= 239 /\ n >= 3 /\ IsCont(b[2]) /\ IsCont(b[3])
                    /\ (b[1] - 224) * 4096 + (b[2] - 128) * 64 + (b[3] - 128) >= 2048
                 THEN step(3, (b[1] - 224) * 4096 + (b[2] - 128) * 64 + (b[3] - 128))
            ELSE Err

\* lumpdata_to_string: from_utf8(...).expect("should succeed")
lumpdata_to_string(data) == from_utf8(data)

----------------------------------------------------------------------------
(* The engine, as the facade consumes it *)

\* the outcomes of an engine call: it succeeds, or it reports an error
MutationOutcomes == {"ok", "err_kept", "err_lost"}
ReadOutcomes == {"ok", "err"}

Without(s, id) == [k \in DOMAIN s \ {id} |-> s[k]]

\* Storage::put: Ok(true) for a new lump, Ok(false) for an overwrite.  After an
\* error nothing is known of the target lump but that it is the old one or gone.
StoragePut(s, id, data, e) ==
    IF e = "ok"
    THEN [storage |-> [k \in DOMAIN s \cup {id} |-> IF k = id THEN data ELSE s[k]],
          res |-> Ok(id \notin DOMAIN s)]
    ELSE [storage |-> IF e = "err_lost" THEN Without(s, id) ELSE s, res |-> Err]

\* Storage::get: Ok(Some(data)), or Ok(None) when there is no such lump
StorageGet(s, id, e) ==
    IF e # "ok" THEN Err
    ELSE IF id \in DOMAIN s THEN Ok(Some(s[id])) ELSE Ok(None)

\* Storage::delete: Ok(true) when the lump existed and was deleted
StorageDelete(s, id, e) ==
    IF e = "ok" THEN [storage |-> Without(s, id), res |-> Ok(id \in DOMAIN s)]
    ELSE [storage |-> IF e = "err_lost" THEN Without(s, id) ELSE s, res |-> Err]

\* Storage::list: the ids of the lumps, one entry per lump, in id order
RECURSIVE SortedSeq(_)
SortedSeq(S) ==
    IF S = {} THEN <<>>
    ELSE LET m == CHOOSE x \in S : \A y \in S : x <= y
         IN <<m>> \o SortedSeq(S \ {m})

StorageList(s) == SortedSeq(DOMAIN s)

----------------------------------------------------------------------------
(* StorageHandle: the key/value operations (pure parts) *)

\* put_str first allocates the lump data (an error there is unwrapped: a panic),
\* then puts it
PutOutcomes == MutationOutcomes \cup {"alloc_err"}

\* a put_str that takes the number of characters for the number of bytes
put_str_truncating(s, key, value, e) ==
    IF e = "alloc_err"
    THEN [storage |-> s, res |-> Err, panic |-> "handle.rs:111"]
    ELSE LET lump_data == SubSeq(as_bytes(value), 1, Len(value))
             r == StoragePut(s, key, lump_data, e)
         IN [storage |-> r.storage, res |-> r.res, panic |-> "none"]

\* a put_str that reports an overwrite as new and a new key as an overwrite
put_str_negated(s, key, value, e) ==
    IF e = "alloc_err"
    THEN [storage |-> s, res |-> Err, panic |-> "handle.rs:111"]
    ELSE LET r == StoragePut(s, key, as_bytes(value), e)
         IN [storage |-> r.storage,
             res |-> IF r.res.ok THEN Ok(~r.res.val) ELSE Err,
             panic |-> "none"]

put_str(s, key, value, e) ==
    IF e = "alloc_err"
    THEN [storage |-> s, res |-> Err, panic |-> "handle.rs:111"]
    ELSE LET lump_data == as_bytes(value)
             r == StoragePut(s, key, lump_data, e)
         IN [storage |-> r.storage, res |-> r.res, panic |-> "none"]

get_string(s, key, e) ==
    LET r == StorageGet(s, key, e)
    IN IF ~r.ok THEN [res |-> Err, panic |-> "none"]
       ELSE IF ~r.val.some THEN [res |-> Ok(None), panic |-> "none"]
       ELSE LET str == lumpdata_to_string(r.val.val)
            IN IF str.ok THEN [res |-> Ok(Some(str.val)), panic |-> "none"]
               ELSE [res |-> Err, panic |-> "handle.rs:14"]

\* a delete_key that asks the engine whether the lump exists and deletes nothing
delete_key_keeping(s, key, e) ==
    [storage |-> s, res |-> StorageDelete(s, key, e).res, panic |-> "none"]

delete_key(s, key, e) ==
    LET r == StorageDelete(s, key, e)
    IN [storage |-> r.storage, res |-> r.res, panic |-> "none"]

\* an all_keys that loses the first id of the engine's list
all_keys_skipping(s) == IF StorageList(s) = <<>> THEN <<>> ELSE Tail(StorageList(s))

all_keys(s) == StorageList(s)

\* whether get_string finds a value under key
HasValue(s, key) == get_string(s, key, "ok").res # Ok(None)

----------------------------------------------------------------------------
(* StorageHandle: the key/value operations as steps of the program *)

MetricsUnchanged == UNCHANGED <<tx, port, exporters>>

\* the process has not panicked and main has not returned
ProcessAlive == panic = "none" /\ repl # "exited"

\* the histories after a put_str and after a delete_key on key with result res
WrittenAfterPut(key, value, res) ==
    IF res.ok
    THEN [k \in DOMAIN written \cup {key} |-> IF k = key THEN value ELSE written[k]]
    ELSE Without(written, key)
DeletedAfterDelete(key, res) ==
    IF res.ok /\ res.val THEN deleted \cup {key}
    ELSE IF res.ok THEN deleted
    ELSE deleted \ {key}

\* handle.put_str(key, value)
PutStr(key, value, e) ==
    /\ ProcessAlive
    /\ LET r == put_str(storage, key, value, e)
       IN /\ storage' = r.storage
          /\ panic' = r.panic
          /\ ret' = [op |-> "put_str", arg |-> key, res |-> r.res]
          /\ written' = WrittenAfterPut(key, value, r.res)
          /\ deleted' = deleted \ {key}
    /\ MetricsUnchanged
    /\ UNCHANGED <<repl, bench, opt>>

\* handle.get_string(key)
GetString(key, e) ==
    /\ ProcessAlive
    /\ LET r == get_string(storage, key, e)
       IN /\ panic' = r.panic
          /\ ret' = [op |-> "get_string", arg |-> key, res |-> r.res]
    /\ UNCHANGED <<storage, written, deleted>>
    /\ MetricsUnchanged
    /\ UNCHANGED <<repl, bench, opt>>

\* handle.delete_key(key)
DeleteKey(key, e) ==
    /\ ProcessAlive
    /\ LET r == delete_key(storage, key, e)
       IN /\ storage' = r.storage
          /\ panic' = r.panic
          /\ ret' = [op |-> "delete_key", arg |-> key, res |-> r.res]
          /\ deleted' = DeletedAfterDelete(key, r.res)
    /\ written' = Without(written, key)
    /\ MetricsUnchanged
    /\ UNCHANGED <<repl, bench, opt>>

\* handle.all_keys()
AllKeys ==
    /\ ProcessAlive
    /\ ret' = [op |-> "all_keys", arg |-> NoArg, res |-> Ok(all_keys(storage))]
    /\ UNCHANGED <<storage, written, deleted, panic>>
    /\ MetricsUnchanged
    /\ UNCHANGED <<repl, bench, opt>>

----------------------------------------------------------------------------
(* StorageHandle: the metrics server *)

\* the port of the bare start_metrics_server command
DefaultPort == 8029
\* the ports the server is started with
Ports == {DefaultPort, DefaultPort + 1}
\* start_metrics_server spawns at most MaxSpawn exporters in a run of the model
MaxSpawn == 2

\* oneshot::channel() and the fiber spawned on server.select2(rx): the exporter
\* is "spawned" until its listener is bound, then "serving", and "done" once the
\* fiber has ended, which drops rx.  sends counts the calls of tx.send, signal
\* says whether the shutdown message is in the channel.
NewExporter(p) == [port |-> p, state |-> "spawned", sends |-> 0, signal |-> FALSE]

\* the exporters that exist: spawned and not yet ended
LiveExporters(ex) == {i \in DOMAIN ex : ex[i].state # "done"}

\* a start_metrics_server that rebinds when asked for another port
start_metrics_server_rebinding(t, pt, ex, p) ==
    IF t # 0 /\ pt = p
    THEN [tx |-> t, port |-> pt, exporters |-> ex,
          res |-> [report |-> "already running", port |-> pt], panic |-> "none"]
    ELSE [tx |-> Len(ex) + 1, port |-> p, exporters |-> Append(ex, NewExporter(p)),
          res |-> [report |-> "started", port |-> p], panic |-> "none"]

\* a start_metrics_server that keeps the sender and does not record the port
start_metrics_server_unrecorded(t, pt, ex, p) ==
    IF t # 0
    THEN IF pt = -1
         THEN [tx |-> t, port |-> pt, exporters |-> ex,
               res |-> [report |-> "none", port |-> pt], panic |-> "handle.rs:44"]
         ELSE [tx |-> t, port |-> pt, exporters |-> ex,
               res |-> [report |-> "already running", port |-> pt], panic |-> "none"]
    ELSE [tx |-> Len(ex) + 1, port |-> pt, exporters |-> Append(ex, NewExporter(p)),
          res |-> [report |-> "started", port |-> p], panic |-> "none"]

start_metrics_server(t, pt, ex, p) ==
    IF t # 0
    THEN IF pt = -1
         THEN [tx |-> t, port |-> pt, exporters |-> ex,
               res |-> [report |-> "none", port |-> pt], panic |-> "handle.rs:44"]
         ELSE [tx |-> t, port |-> pt, exporters |-> ex,
               res |-> [report |-> "already running", port |-> pt], panic |-> "none"]
    ELSE [tx |-> Len(ex) + 1, port |-> p, exporters |-> Append(ex, NewExporter(p)),
          res |-> [report |-> "started", port |-> p], panic |-> "none"]

\* a finish_metrics_server that sends through a borrowed sender and keeps it
finish_metrics_server_keeping(t, pt, ex) ==
    IF t # 0
    THEN [tx |-> t, port |-> pt,
          exporters |-> [ex EXCEPT ![t].sends = @ + 1, ![t].signal = ex[t].state # "done"],
          res |-> [report |-> "finishing", port |-> pt],
          panic |-> IF ex[t].state # "done" THEN "none" ELSE "handle.rs:76"]
    ELSE [tx |-> 0, port |-> pt, exporters |-> ex,
          res |-> [report |-> "not running", port |-> pt], panic |-> "none"]

\* tx.take(), then tx.send(()).unwrap(): the send fails when rx has been dropped
finish_metrics_server(t, pt, ex) ==
    IF t # 0
    THEN [tx |-> 0, port |-> pt,
          exporters |-> [ex EXCEPT ![t].sends = @ + 1, ![t].signal = ex[t].state # "done"],
          res |-> [report |-> "finishing", port |-> pt],
          panic |-> IF ex[t].state # "done" THEN "none" ELSE "handle.rs:76"]
    ELSE [tx |-> 0, port |-> pt, exporters |-> ex,
          res |-> [report |-> "not running", port |-> pt], panic |-> "none"]

StoreUnchanged == UNCHANGED <<storage, written, deleted>>

\* handle.start_metrics_server(p)
StartMetricsServer(p) ==
    /\ ProcessAlive
    /\ tx = 0 => Len(exporters) < MaxSpawn
    /\ LET r == start_metrics_server(tx, port, exporters, p)
       IN /\ tx' = r.tx
          /\ port' = r.port
          /\ exporters' = r.exporters
          /\ panic' = r.panic
          /\ ret' = [op |-> "start_metrics_server", arg |-> p, res |-> r.res]
    /\ StoreUnchanged
    /\ UNCHANGED <<repl, bench, opt>>

\* handle.finish_metrics_server()
FinishMetricsServer ==
    /\ ProcessAlive
    /\ LET r == finish_metrics_server(tx, port, exporters)
       IN /\ tx' = r.tx
          /\ port' = r.port
          /\ exporters' = r.exporters
          /\ panic' = r.panic
          /\ ret' = [op |-> "finish_metrics_server", arg |-> NoArg, res |-> r.res]
    /\ StoreUnchanged
    /\ UNCHANGED <<repl, bench, opt>>

ExporterUnchanged == UNCHANGED <<tx, port, ret, panic, repl, bench, opt>>

\* the fiber's server binds its listener, or fails to and ends
ExporterBind(i, bound) ==
    /\ ProcessAlive
    /\ i \in DOMAIN exporters
    /\ exporters[i].state = "spawned"
    /\ exporters' = [exporters EXCEPT ![i].state = IF bound THEN "serving" ELSE "done"]
    /\ StoreUnchanged
    /\ ExporterUnchanged

\* the fiber finds the shutdown message in rx and ends
ExporterExit(i) ==
    /\ ProcessAlive
    /\ i \in DOMAIN exporters
    /\ exporters[i].state # "done"
    /\ exporters[i].signal
    /\ exporters' = [exporters EXCEPT ![i].state = "done"]
    /\ StoreUnchanged
    /\ ExporterUnchanged

\* the server of a serving fiber ends with an error of its own
ExporterFail(i) ==
    /\ ProcessAlive
    /\ i \in DOMAIN exporters
    /\ exporters[i].state = "serving"
    /\ exporters' = [exporters EXCEPT ![i].state = "done"]
    /\ StoreUnchanged
    /\ ExporterUnchanged

ExporterStep ==
    \E i \in 1..MaxSpawn :
        \/ \E bound \in BOOLEAN : ExporterBind(i, bound)
        \/ ExporterExit(i)
        \/ ExporterFail(i)

NextMetrics ==
    \/ \E p \in Ports : StartMetricsServer(p)
    \/ FinishMetricsServer
    \/ ExporterStep

SpecMetrics == Init /\ [][NextMetrics]_vars

----------------------------------------------------------------------------
(* The key/value operations of the facade, in any order *)

Next ==
    \/ \E key \in Keys, value \in Values, e \in PutOutcomes : PutStr(key, value, e)
    \/ \E key \in Keys, e \in ReadOutcomes : GetString(key, e)
    \/ \E key \in Keys, e \in MutationOutcomes : DeleteKey(key, e)
    \/ AllKeys

Spec == Init /\ [][Next]_vars

----------------------------------------------------------------------------
(* main.rs: the lines of the REPL.  A line is a sequence of code points. *)

\* "put"
Kw_put == <<112, 117, 116>>
\* "get"
Kw_get == <<103, 101, 116>>
\* "delete"
Kw_delete == <<100, 101, 108, 101, 116, 101>>
\* "start_metrics_server"
Kw_start_metrics_server == <<115, 116, 97, 114, 116, 95, 109, 101, 116, 114, 105, 99, 115, 95, 115, 101, 114, 118, 101, 114>>
\* "list"
Kw_list == <<108, 105, 115, 116>>
\* "dump"
Kw_dump == <<100, 117, 109, 112>>
\* "header"
Kw_header == <<104, 101, 97, 100, 101, 114>>
\* "journal"
Kw_journal == <<106, 111, 117, 114, 110, 97, 108>>
\* "journal_gc"
Kw_journal_gc == <<106, 111, 117, 114, 110, 97, 108, 95, 103, 99>>
\* "metrics"
Kw_metrics == <<109, 101, 116, 114, 105, 99, 115>>
\* "finish_metrics_server"
Kw_finish_metrics_server == <<102, 105, 110, 105, 115, 104, 95, 109, 101, 116, 114, 105, 99, 115, 95, 115, 101, 114, 118, 101, 114>>

\* \s of the regex crate, for the code points below 256
IsSpace(c) == c \in {9, 10, 11, 12, 13, 32, 133, 160}
\* [0-9]
IsDigit(c) == c >= 48 /\ c <= 57

StartsWith(line, kw) == Len(line) >= Len(kw) /\ SubSeq(line, 1, Len(kw)) = kw
After(line, n) == SubSeq(line, n + 1, Len(line))

\* the length of the longest prefix of white space, and of digits
SpaceRun(s) ==
    CHOOSE n \in 0..Len(s) :
        /\ \A i \in 1..n : IsSpace(s[i])
        /\ n = Len(s) \/ ~IsSpace(s[n + 1])
DigitRun(s) ==
    CHOOSE n \in 0..Len(s) :
        /\ \A i \in 1..n : IsDigit(s[i])
        /\ n = Len(s) \/ ~IsDigit(s[n + 1])

NoMatch == [matched |-> FALSE]

\* ^kw\s+([0-9]+)$ with minSpace = 1, ^kw\s*([0-9]+)$ with minSpace = 0
MatchKeywordNumber(line, kw, minSpace) ==
    IF ~StartsWith(line, kw) THEN NoMatch
    ELSE LET rest == After(line, Len(kw))
             sp == SpaceRun(rest)
             ds == After(rest, sp)
         IN IF sp >= minSpace /\ ds # <<>> /\ DigitRun(ds) = Len(ds)
            THEN [matched |-> TRUE, num |-> ds]
            ELSE NoMatch

\* a put pattern whose value ends at the first white space: ^put\s+([0-9]+)\s+(\S+)
put_regex_first_word(line) ==
    IF ~StartsWith(line, Kw_put) THEN NoMatch
    ELSE LET rest == After(line, Len(Kw_put))
             sp1 == SpaceRun(rest)
             r2 == After(rest, sp1)
             dn == DigitRun(r2)
             r3 == After(r2, dn)
             sp2 == SpaceRun(r3)
             r4 == After(r3, sp2)
             word == CHOOSE n \in 0..Len(r4) :
                         /\ \A i \in 1..n : ~IsSpace(r4[i])
                         /\ n = Len(r4) \/ IsSpace(r4[n + 1])
         IN IF sp1 >= 1 /\ dn >= 1 /\ sp2 >= 1 /\ word >= 1
            THEN [matched |-> TRUE, num |-> SubSeq(r2, 1, dn), value |-> SubSeq(r4, 1, word)]
            ELSE NoMatch

\* ^put\s+([0-9]+)\s+([^\x00]+)$: the second \s+ takes all the white space it
\* can and gives back one character when nothing else is left for the value
put_regex(line) ==
    IF ~StartsWith(line, Kw_put) THEN NoMatch
    ELSE LET rest == After(line, Len(Kw_put))
             sp1 == SpaceRun(rest)
             r2 == After(rest, sp1)
             dn == DigitRun(r2)
             r3 == After(r2, dn)
             sp2 == SpaceRun(r3)
             r4 == After(r3, sp2)
             value == IF r4 # <<>> THEN r4 ELSE After(r3, sp2 - 1)
         IN IF /\ sp1 >= 1
               /\ dn >= 1
               /\ sp2 >= 1
               /\ (r4 = <<>> => sp2 >= 2)
               /\ \A i \in DOMAIN value : value[i] # 0
            THEN [matched |-> TRUE, num |-> SubSeq(r2, 1, dn), value |-> value]
            ELSE NoMatch

get_regex(line) == MatchKeywordNumber(line, Kw_get, 1)
delete_regex(line) == MatchKeywordNumber(line, Kw_delete, 0)
metrics_server(line) == MatchKeywordNumber(line, Kw_start_metrics_server, 0)

\* str::parse of a run of decimal digits: the value, or Err when it does not
\* fit the type.  The largest value of the type is given by its digits.
\* "340282366920938463463374607431768211455"
U128MaxDigits == <<51, 52, 48, 50, 56, 50, 51, 54, 54, 57, 50, 48, 57, 51, 56, 52, 54, 51, 52, 54, 51, 51, 55, 52, 54, 48, 55, 52, 51, 49, 55, 54, 56, 50, 49, 49, 52, 53, 53>>
\* "65535"
U16MaxDigits == <<54, 53, 53, 51, 53>>

RECURSIVE StripZeros(_)
StripZeros(ds) ==
    IF Len(ds) > 1 /\ ds[1] = 48 THEN StripZeros(Tail(ds)) ELSE ds

\* ds <= max, for two numerals without leading zeros
NumeralLeq(ds, max) ==
    \/ Len(ds) < Len(max)
    \/ /\ Len(ds) = Len(max)
       /\ \/ ds = max
          \/ \E i \in DOMAIN ds :
                 /\ ds[i] < max[i]
                 /\ \A j \in 1..(i - 1) : ds[j] = max[j]

RECURSIVE DecValue(_)
DecValue(ds) ==
    IF ds = <<>> THEN 0 ELSE DecValue(SubSeq(ds, 1, Len(ds) - 1)) * 10 + (ds[Len(ds)] - 48)

parse(ds, max) ==
    IF NumeralLeq(StripZeros(ds), max) THEN Ok(DecValue(StripZeros(ds))) ELSE Err

\* is_valid_characters: the bytes of a &str are UTF-8
is_valid_characters(data) == from_utf8(as_bytes(data)).ok

\* handle_input, up to the call it makes: which branch a line takes, with the
\* arguments parsed from it
Dispatch(line) ==
    IF put_regex(line).matched
    THEN LET key == parse(put_regex(line).num, U128MaxDigits)
         IN IF ~key.ok THEN [cmd |-> "panic", site |-> "main.rs:160"]
            ELSE IF is_valid_characters(put_regex(line).value)
                 THEN [cmd |-> "put", key |-> key.val, value |-> put_regex(line).value]
                 ELSE [cmd |-> "invalid value"]
    ELSE IF get_regex(line).matched
    THEN LET key == parse(get_regex(line).num, U128MaxDigits)
         IN IF ~key.ok THEN [cmd |-> "panic", site |-> "main.rs:169"]
            ELSE [cmd |-> "get", key |-> key.val]
    ELSE IF delete_regex(line).matched
    THEN LET key == parse(delete_regex(line).num, U128MaxDigits)
         IN IF ~key.ok THEN [cmd |-> "panic", site |-> "main.rs:172"]
            ELSE [cmd |-> "delete", key |-> key.val]
    ELSE IF metrics_server(line).matched
    THEN LET p == parse(metrics_server(line).num, U16MaxDigits)
         IN IF ~p.ok THEN [cmd |-> "panic", site |-> "main.rs:175"]
            ELSE [cmd |-> "start_metrics_server", port |-> p.val]
    ELSE IF line = Kw_list THEN [cmd |-> "list"]
    ELSE IF line = Kw_dump THEN [cmd |-> "dump"]
    ELSE IF line = Kw_header THEN [cmd |-> "header"]
    ELSE IF line = Kw_journal THEN [cmd |-> "journal"]
    ELSE IF line = Kw_journal_gc THEN [cmd |-> "journal_gc"]
    ELSE IF line = Kw_metrics THEN [cmd |-> "metrics"]
    ELSE IF line = Kw_start_metrics_server
    THEN [cmd |-> "start_metrics_server", port |-> DefaultPort]
    ELSE IF line = Kw_finish_metrics_server THEN [cmd |-> "finish_metrics_server"]
    ELSE [cmd |-> "invalid command"]

----------------------------------------------------------------------------
(* StorageHandle: the printing operations the REPL calls *)

\* a panic of track_try_unwrap!(...) at site when res is an error
Unwrapped(r, site) == IF r.panic # "none" THEN r.panic ELSE IF r.res.ok THEN "none" ELSE site

\* handle.put(key, value)
Put(key, value, e) ==
    /\ ProcessAlive
    /\ LET r == put_str(storage, key, value, e)
       IN /\ storage' = r.storage
          /\ panic' = Unwrapped(r, "handle.rs:119")
          /\ ret' = [op |-> "put", arg |-> key, res |-> r.res]
          /\ written' = WrittenAfterPut(key, value, r.res)
          /\ deleted' = deleted \ {key}
    /\ MetricsUnchanged
    /\ UNCHANGED <<repl, bench, opt>>

\* handle.get(key)
Get(key, e) ==
    /\ ProcessAlive
    /\ LET r == get_string(storage, key, e)
       IN /\ panic' = Unwrapped(r, "handle.rs:142")
          /\ ret' = [op |-> "get", arg |-> key, res |-> r.res]
    /\ StoreUnchanged
    /\ MetricsUnchanged
    /\ UNCHANGED <<repl, bench, opt>>

\* handle.delete(key)
Delete(key, e) ==
    /\ ProcessAlive
    /\ LET r == delete_key(storage, key, e)
       IN /\ storage' = r.storage
          /\ panic' = Unwrapped(r, "handle.rs:162")
          /\ ret' = [op |-> "delete", arg |-> key, res |-> r.res]
          /\ deleted' = DeletedAfterDelete(key, r.res)
    /\ written' = Without(written, key)
    /\ MetricsUnchanged
    /\ UNCHANGED <<repl, bench, opt>>

\* handle.print_list_of_lumpids()
PrintListOfLumpids ==
    /\ ProcessAlive
    /\ ret' = [op |-> "print_list_of_lumpids", arg |-> NoArg, res |-> Ok(StorageList(storage))]
    /\ UNCHANGED panic
    /\ StoreUnchanged
    /\ MetricsUnchanged
    /\ UNCHANGED <<repl, bench, opt>>

\* handle.print_all_key_value_pairs(): get(key).unwrap().unwrap() for every id listed
PrintAllKeyValuePairs(e) ==
    /\ ProcessAlive
    /\ LET ids == StorageList(storage)
           gets == [i \in DOMAIN ids |-> get_string(storage, ids[i], e)]
       IN IF \E i \in DOMAIN ids : ~gets[i].res.ok
          THEN /\ panic' = IF \E i \in DOMAIN ids : gets[i].panic # "none"
                           THEN "handle.rs:14" ELSE "handle.rs:229"
               /\ ret' = [op |-> "print_all_key_value_pairs", arg |-> NoArg, res |-> Err]
          ELSE /\ panic' = "none"
               /\ ret' = [op |-> "print_all_key_value_pairs", arg |-> NoArg,
                          res |-> Ok([i \in DOMAIN ids |-> <<ids[i], gets[i].res.val.val>>])]
    /\ StoreUnchanged
    /\ MetricsUnchanged
    /\ UNCHANGED <<repl, bench, opt>>

\* handle.print_header_info()
PrintHeaderInfo ==
    /\ ProcessAlive
    /\ ret' = [op |-> "print_header_info", arg |-> NoArg, res |-> Ok("header")]
    /\ UNCHANGED panic
    /\ StoreUnchanged
    /\ MetricsUnchanged
    /\ UNCHANGED <<repl, bench, opt>>

\* handle.print_journal_info()
PrintJournalInfo(e) ==
    /\ ProcessAlive
    /\ ret' = [op |-> "print_journal_info", arg |-> NoArg,
               res |-> IF e = "ok" THEN Ok("snapshot") ELSE Err]
    /\ panic' = IF e = "ok" THEN "none" ELSE "handle.rs:171"
    /\ StoreUnchanged
    /\ MetricsUnchanged
    /\ UNCHANGED <<repl, bench, opt>>

GcOutcomes == {"ok", "sync_err", "gc_err"}

\* a journal_gc that starts the GC pass whatever the sync returned
journal_gc_unsynced(e) ==
    IF e = "ok"
    THEN [calls |-> <<[call |-> "journal_sync", res |-> "ok"], [call |-> "journal_gc", res |-> "ok"]>>,
          res |-> Ok("succeeded"), panic |-> "none"]
    ELSE [calls |-> <<[call |-> "journal_sync", res |-> IF e = "sync_err" THEN "err" ELSE "ok"],
                      [call |-> "journal_gc", res |-> IF e = "gc_err" THEN "err" ELSE "ok"]>>,
          res |-> IF e = "gc_err" THEN Err ELSE Ok("succeeded"),
          panic |-> IF e = "gc_err" THEN "handle.rs:196" ELSE "none"]

\* handle.journal_gc(): the engine calls it makes with their results, what it
\* reports, and where it panics
journal_gc(e) ==
    IF e = "sync_err"
    THEN [calls |-> <<[call |-> "journal_sync", res |-> "err"]>>,
          res |-> Err, panic |-> "handle.rs:193"]
    ELSE IF e = "gc_err"
    THEN [calls |-> <<[call |-> "journal_sync", res |-> "ok"], [call |-> "journal_gc", res |-> "err"]>>,
          res |-> Err, panic |-> "handle.rs:196"]
    ELSE [calls |-> <<[call |-> "journal_sync", res |-> "ok"], [call |-> "journal_gc", res |-> "ok"]>>,
          res |-> Ok("succeeded"), panic |-> "none"]

JournalGc(e) ==
    /\ ProcessAlive
    /\ ret' = [op |-> "journal_gc", arg |-> journal_gc(e).calls, res |-> journal_gc(e).res]
    /\ panic' = journal_gc(e).panic
    /\ StoreUnchanged
    /\ MetricsUnchanged
    /\ UNCHANGED <<repl, bench, opt>>

\* the process-wide gatherer when metrics() is called: free, held by another
\* thread, or poisoned by a thread that panicked while it held it
LockOutcomes == {"free", "held", "poisoned"}

\* metrics() with lock() in the place of try_lock(): it waits for the holder
metrics_waiting(l) ==
    IF l = "poisoned"
    THEN [res |-> None, gatherer |-> l, blocked |-> FALSE]
    ELSE [res |-> Some("metrics text"), gatherer |-> "free", blocked |-> l = "held"]

\* handle.metrics(): try_lock on the gatherer; the guard is a local of the
\* function and is dropped when it returns.  The result, the state the
\* gatherer is left in, and whether the call had to wait.
metrics(l) ==
    IF l = "free"
    THEN [res |-> Some("metrics text"), gatherer |-> "free", blocked |-> FALSE]
    ELSE [res |-> None, gatherer |-> l, blocked |-> FALSE]

Metrics(l) ==
    /\ ProcessAlive
    /\ ret' = [op |-> "metrics", arg |-> l, res |-> metrics(l).res,
               gatherer |-> metrics(l).gatherer, blocked |-> metrics(l).blocked]
    /\ UNCHANGED panic
    /\ StoreUnchanged
    /\ MetricsUnchanged
    /\ UNCHANGED <<repl, bench, opt>>

----------------------------------------------------------------------------
(* StorageHandle used as a library: put, get and delete are public and are   *)
(* called with any key and any &str                                          *)

NextFacade ==
    \/ \E key \in Keys, value \in Values, e \in PutOutcomes : Put(key, value, e)
    \/ \E key \in Keys, e \in ReadOutcomes : Get(key, e)
    \/ \E key \in Keys, e \in MutationOutcomes : Delete(key, e)

SpecFacade == Init /\ [][NextFacade]_vars

----------------------------------------------------------------------------
(* main.rs: handle_input and the loop of the Open command *)

\* the lines typed: a command word, white space or none, a number or none, a rest
Seps == {<<>>, <<32>>}
\* "", "7", "07", and 2^128
KeyNumerals == {<<>>, <<55>>, <<48, 55>>, <<51, 52, 48, 50, 56, 50, 51, 54, 54, 57, 50, 48, 57, 51, 56, 52, 54, 51, 52, 54, 51, 51, 55, 52, 54, 48, 55, 52, 51, 49, 55, 54, 56, 50, 49, 49, 52, 53, 54>>}
\* "", " a", " a b", "  ", " NUL"
Tails == {<<>>, <<32, 97>>, <<32, 97, 32, 98>>, <<32, 32>>, <<32, 0>>}
\* "", "8030", "65536"
PortNumerals == {<<>>, <<56, 48, 51, 48>>, <<54, 53, 53, 51, 54>>}
\* the commands without argument, and " list", "x" and the empty line
WordLines ==
    {Kw_list, Kw_dump, Kw_header, Kw_journal, Kw_journal_gc, Kw_metrics,
     Kw_finish_metrics_server, <<32>> \o Kw_list, <<120>>, <<>>}

Lines ==
    {kw \o sep \o num \o tail :
        kw \in {Kw_put, Kw_get, Kw_delete}, sep \in Seps, num \in KeyNumerals, tail \in Tails}
    \cup {Kw_start_metrics_server \o sep \o num : sep \in Seps, num \in PortNumerals}
    \cup WordLines

\* Dispatch, tabulated over the lines typed
Dispatched == [line \in Lines |-> Dispatch(line)]

\* what the collaborators may answer to the call a command makes
OutcomesOf(cmd) ==
    CASE cmd = "put" -> PutOutcomes
      [] cmd = "delete" -> MutationOutcomes
      [] cmd \in {"get", "dump", "journal"} -> ReadOutcomes
      [] cmd = "journal_gc" -> GcOutcomes
      [] cmd = "metrics" -> LockOutcomes
      [] OTHER -> {"ok"}

\* a line that only prints: an invalid command, or a panic of handle_input itself
OnlyReport(op, site) ==
    /\ ProcessAlive
    /\ ret' = [op |-> op, arg |-> NoArg, res |-> Err]
    /\ panic' = site
    /\ StoreUnchanged
    /\ MetricsUnchanged
    /\ UNCHANGED <<repl, bench, opt>>

handle_input(line, e) ==
    LET d == Dispatched[line]
    IN CASE d.cmd = "panic" -> OnlyReport("handle_input", d.site)
         [] d.cmd = "put" -> Put(d.key, d.value, e)
         [] d.cmd = "invalid value" -> OnlyReport("invalid value", "none")
         [] d.cmd = "get" -> Get(d.key, e)
         [] d.cmd = "delete" -> Delete(d.key, e)
         [] d.cmd = "start_metrics_server" -> StartMetricsServer(d.port)
         [] d.cmd = "list" -> PrintListOfLumpids
         [] d.cmd = "dump" -> PrintAllKeyValuePairs(e)
         [] d.cmd = "header" -> PrintHeaderInfo
         [] d.cmd = "journal" -> PrintJournalInfo(e)
         [] d.cmd = "journal_gc" -> JournalGc(e)
         [] d.cmd = "metrics" -> Metrics(e)
         [] d.cmd = "finish_metrics_server" -> FinishMetricsServer
         [] OTHER -> OnlyReport("invalid command", "none")

\* Ok(line) from readline: handle_input(&mut handle, &line)
ReplLine ==
    /\ repl = "reading"
    /\ \E line \in Lines :
           \E e \in OutcomesOf(Dispatched[line].cmd) : handle_input(line, e)

\* Interrupted, Eof or another error from readline: break
ReadlineErrors == {"Interrupted", "Eof", "Error"}

\* a loop that reports the error of readline and goes on reading
ReplEnd_continuing ==
    /\ ProcessAlive
    /\ repl = "reading"
    /\ \E why \in ReadlineErrors :
           ret' = [op |-> "readline", arg |-> NoArg, res |-> [ok |-> FALSE, why |-> why]]
    /\ UNCHANGED <<storage, tx, port, exporters, written, deleted, panic, repl, bench, opt>>

ReplEnd ==
    /\ ProcessAlive
    /\ repl = "reading"
    /\ \E why \in ReadlineErrors :
           ret' = [op |-> "readline", arg |-> NoArg, res |-> [ok |-> FALSE, why |-> why]]
    /\ repl' = "exited"
    /\ UNCHANGED <<storage, tx, port, exporters, written, deleted, panic, bench, opt>>

\* Command::Open: the storage is opened, the handle made, the loop entered
InitRepl ==
    /\ HandleInit
    /\ repl = "reading"
    /\ bench = NoBench
    /\ opt = NoOpt

NextRepl ==
    \/ ReplLine
    \/ ReplEnd
    \/ ExporterStep

SpecRepl == InitRepl /\ [][NextRepl]_vars

\* the same with a finite input: the reader comes to the end of it, so that
\* readline does not return lines for ever
SpecReplFinite == InitRepl /\ [][NextRepl]_vars /\ WF_vars(ReplEnd)

----------------------------------------------------------------------------
(* main.rs: the command line of a one-shot command *)

\* enum Command
CommandNames ==
    {"Create", "Dump", "List", "Put", "Get", "Delete", "Header", "Journal",
     "JournalGC", "Open", "WBench", "WRBench"}

\* the arguments of Opt, by the name of their field
ArgNames == {"storage_path", "capacity", "lumpid", "data", "count", "size"}

\* requires_ifs of the argument command: (value, argument required with it)
requires_ifs ==
    {<<"Create", "capacity">>,
     <<"Put", "lumpid">>, <<"Put", "data">>,
     <<"Get", "lumpid">>,
     <<"Delete", "lumpid">>,
     <<"WBench", "count">>, <<"WBench", "size">>,
     <<"WRBench", "count">>, <<"WRBench", "size">>}

\* requires_ifs without the pair ("Put", "data")
RequiredArgs_without_data(command) ==
    {"storage_path"} \cup {p[2] : p \in {q \in requires_ifs \ {<<"Put", "data">>} : q[1] = command}}

\* what clap requires for a command: storage_path is not an Option
RequiredArgs(command) ==
    {"storage_path"} \cup {p[2] : p \in {q \in requires_ifs : q[1] = command}}

\* Opt::from_args: a usage error and exit, or the parsed Opt
from_args(command, args) == RequiredArgs(command) \subseteq args

\* the Options main unwraps in the arm of a command
Unwraps(command) ==
    CASE command = "Create" -> {"capacity"}
      [] command = "Put" -> {"lumpid", "data"}
      [] command \in {"Get", "Delete"} -> {"lumpid"}
      [] command \in {"WBench", "WRBench"} -> {"count", "size"}
      [] OTHER -> {}

\* where the arm unwraps them
UnwrapSite(command) ==
    CASE command = "Create" -> "main.rs:209"
      [] command = "Put" -> "main.rs:281"
      [] command = "Get" -> "main.rs:277"
      [] command = "Delete" -> "main.rs:297"
      [] command = "WBench" -> "main.rs:308"
      [] command = "WRBench" -> "main.rs:329"
      [] OTHER -> "none"

\* the arms that call StorageHandle::create before they unwrap
OpensBeforeUnwrap(command) == command \in {"Put", "Get", "Delete"}

\* where the arm panics when the engine refuses to open or create the storage
OpenSite(command) ==
    CASE command = "Create" -> "main.rs:226"
      [] command = "Open" -> "main.rs:248"
      [] command \in {"WBench", "WRBench"} -> "main.rs:145"
      [] OTHER -> "handle.rs:92"

OpenOutcomes == {"ok", "err"}

\* let opt = Opt::from_args()
FromArgs ==
    /\ panic = "none"
    /\ opt.phase = "argv"
    /\ opt' = [opt EXCEPT !.phase = IF from_args(opt.command, opt.args)
                                    THEN "parsed" ELSE "rejected"]
    /\ UNCHANGED <<storage, tx, port, exporters, written, deleted, ret, panic, repl, bench>>

\* match opt.command: the arm of the command, up to the storage it opens or creates
RunCommand(e) ==
    /\ panic = "none"
    /\ opt.phase = "parsed"
    /\ LET missing == Unwraps(opt.command) \ opt.args
           opened == IF e = "ok" THEN "opened" ELSE "refused"
       IN IF missing = {}
          THEN /\ opt' = [opt EXCEPT !.phase = "ran", !.engine = opened]
               /\ panic' = IF e = "ok" THEN "none" ELSE OpenSite(opt.command)
          ELSE IF OpensBeforeUnwrap(opt.command)
          THEN /\ opt' = [opt EXCEPT !.phase = "ran", !.engine = opened]
               /\ panic' = IF e = "ok" THEN UnwrapSite(opt.command) ELSE OpenSite(opt.command)
          ELSE /\ opt' = [opt EXCEPT !.phase = "ran"]
               /\ panic' = UnwrapSite(opt.command)
    /\ UNCHANGED <<storage, tx, port, exporters, written, deleted, ret, repl, bench>>

\* a process started with a command and any set of arguments
InitOneShot ==
    /\ HandleInit
    /\ repl = "off"
    /\ bench = NoBench
    /\ \E command \in CommandNames, args \in SUBSET ArgNames :
           opt = [phase |-> "argv", command |-> command, args |-> args,
                  engine |-> "untouched"]

NextOneShot ==
    \/ FromArgs
    \/ \E e \in OpenOutcomes : RunCommand(e)

SpecOneShot == InitOneShot /\ [][NextOneShot]_vars

----------------------------------------------------------------------------
(* main.rs: the sizing of the benchmark storage *)

\* record counts are 1..MaxCount
MaxCount == 8
Counts == 1..MaxCount
\* record sizes around the two thresholds of the sizing: 128 bytes, where the
\* raised ratio is 1, and 12800 bytes, where 1% of the capacity is 256 bytes a
\* record.  No product of these counts and sizes comes near 2^64.
Sizes == {1, 64, 127, 128, 129, 12799, 12800, 12801}

\* an f64 ratio as the fraction num / den
Ratio(n, d) == [num |-> n, den |-> d]
RatioLeq(r, q) == r.num * q.den <= q.num * r.den
\* (x as f64 * r) as u64: the product, truncated
TimesTrunc(x, r) == (x * r.num) \div r.den

NvmOutcomes == {"ok", "err"}
CreateOutcomes == {"ok", "err"}

\* StorageBuilder::journal_region_ratio(ratio).create(nvm): the journal region is
\* ratio * capacity bytes of the file, so a ratio above 1 is an error
StorageCreate(capacity, ratio, e) ==
    IF e = "ok" /\ RatioLeq(ratio, Ratio(1, 1))
    THEN Ok([capacity |-> capacity, journal_ratio |-> ratio])
    ELSE Err

create_storage_for_benchmark(count, size, n, e) ==
    LET total == count * size
        capacity == total * 2
        initial == Ratio(1, 100)
        journal_ratio ==
            IF TimesTrunc(capacity, initial) < 256 * count
            THEN Ratio(256 * count, capacity)
            ELSE initial
        created == StorageCreate(capacity, journal_ratio, e)
    IN IF n # "ok"
       THEN [capacity |-> capacity, journal_ratio |-> journal_ratio,
             res |-> Err, panic |-> "main.rs:145"]
       ELSE [capacity |-> capacity, journal_ratio |-> journal_ratio,
             res |-> IF created.ok THEN Ok(total) ELSE Err, panic |-> "none"]

\* WBench and WRBench: create_storage_for_benchmark(path, count, size).unwrap()
CreateStorageForBenchmark(n, e) ==
    /\ panic = "none"
    /\ bench.phase = "args"
    /\ LET r == create_storage_for_benchmark(bench.count, bench.size, n, e)
       IN /\ bench' = [phase |-> IF r.res.ok THEN "created" ELSE "failed",
                       count |-> bench.count, size |-> bench.size,
                       capacity |-> r.capacity, journal_ratio |-> r.journal_ratio,
                       res |-> r.res]
          /\ panic' = IF r.panic # "none" THEN r.panic
                      ELSE IF r.res.ok THEN "none" ELSE "main.rs:311"
    /\ UNCHANGED <<storage, tx, port, exporters, written, deleted, ret, repl, opt>>

InitBench ==
    /\ HandleInit
    /\ repl = "off"
    /\ opt = NoOpt
    /\ \E count \in Counts, size \in Sizes :
           bench = [phase |-> "args", count |-> count, size |-> size]

NextBench == \E n \in NvmOutcomes, e \in CreateOutcomes : CreateStorageForBenchmark(n, e)

SpecBench == InitBench /\ [][NextBench]_vars

----------------------------------------------------------------------------
(* main.rs: the loops of WBench and WRBench *)

\* opt.count is a u128, written hi * 2^64 + lo: this is count as u64
AsU64(hi, lo) == lo

\* let marching_len = 100
marching_len == 100

\* WRBench is run for counts of up to MaxWindows windows and a rest
MaxWindows == 2
WRCounts ==
    {k * marching_len + d : k \in 0..MaxWindows, d \in {1, marching_len - 1}}
    \cup {k * marching_len : k \in 1..MaxWindows}
\* sizes for which the storage is created
WRSizes == {128}

\* i < count, for i in 0..count with count: u128
InRange(i) == opt.count_hi > 0 \/ i < opt.count

\* no run is followed beyond this many iterations
LoopCap == IF opt.command = "WBench" THEN MaxCount + 1 ELSE (MaxWindows + 1) * marching_len

CallOutcomes == {"ok", "err"}
ClockOutcomes == {"ok", "err"}

BenchUnchanged ==
    UNCHANGED <<storage, tx, port, exporters, written, deleted, ret, repl, opt>>

\* the command line of a benchmark, parsed, and the call
\* create_storage_for_benchmark(path, count as u64, size as u64) about to be made
BenchArgs(command, hi, count, size) ==
    /\ opt = [phase |-> "parsed", command |-> command,
              args |-> {"storage_path", "count", "size"}, engine |-> "untouched",
              count_hi |-> hi, count |-> count, size |-> size]
    /\ bench = [phase |-> "args", count |-> AsU64(hi, count), size |-> size]

\* let tmp_vec = vec![0; size]; let now = SystemTime::now(); and the locals of
\* the loop.  sized is the count the storage was sized for.
BenchStart ==
    /\ panic = "none"
    /\ bench.phase = "created"
    /\ opt.phase = "parsed"
    /\ bench' = [phase |-> "running", pc |-> "alloc", i |-> 0,
                 total |-> bench.res.val, sized |-> bench.count, size |-> bench.size,
                 tmp_vec |-> [len |-> opt.size, byte |-> 0],
                 c |-> 0, keystore |-> <<>>, r |-> 0,
                 puts |-> 0, log |-> <<>>, reads |-> <<>>,
                 failed |-> FALSE, reported |-> FALSE]
    /\ UNCHANGED panic
    /\ BenchUnchanged

\* one engine call of a loop: the entry of the log
Call(name, arg, e) == [call |-> name, arg |-> arg, res |-> e]

\* the loop runs on
Looping(command, pc) ==
    /\ panic = "none"
    /\ bench.phase = "running"
    /\ opt.command = command
    /\ bench.pc = pc
    /\ InRange(bench.i)
    /\ bench.i < LoopCap

\* WBench: storage.allocate_lump_data_with_bytes(tmp_vec.as_ref())
WAlloc(e) ==
    /\ Looping("WBench", "alloc")
    /\ bench' = [bench EXCEPT !.pc = "put", !.failed = e # "ok",
                              !.log = Append(@, Call("allocate", bench.tmp_vec, e))]
    /\ panic' = IF e = "ok" THEN "none" ELSE "main.rs:319"
    /\ BenchUnchanged

\* WBench: storage.put(&lump_id, &lump_data).unwrap()
WPut(e) ==
    /\ Looping("WBench", "put")
    /\ bench' = [bench EXCEPT !.pc = "sync", !.failed = e # "ok",
                              !.puts = IF e = "ok" THEN @ + 1 ELSE @,
                              !.log = Append(@, Call("put", bench.i, e))]
    /\ panic' = IF e = "ok" THEN "none" ELSE "main.rs:320"
    /\ BenchUnchanged

\* WBench with let _ = storage.journal_sync(): a failed sync is not looked at
WSync_ignoring(e) ==
    /\ Looping("WBench", "sync")
    /\ bench' = [bench EXCEPT !.pc = "alloc", !.failed = e # "ok", !.i = @ + 1,
                              !.log = Append(@, Call("journal_sync", bench.i, e))]
    /\ panic' = "none"
    /\ BenchUnchanged

\* WBench: storage.journal_sync().unwrap(), and the next i
WSync(e) ==
    /\ Looping("WBench", "sync")
    /\ bench' = [bench EXCEPT !.pc = "alloc", !.failed = e # "ok",
                              !.i = IF e = "ok" THEN @ + 1 ELSE @,
                              !.log = Append(@, Call("journal_sync", bench.i, e))]
    /\ panic' = IF e = "ok" THEN "none" ELSE "main.rs:321"
    /\ BenchUnchanged

\* WRBench: storage.allocate_lump_data_with_bytes(tmp_vec.as_ref())
WRAlloc(e) ==
    /\ Looping("WRBench", "alloc")
    /\ bench' = [bench EXCEPT !.pc = "put", !.failed = @ \/ e # "ok"]
    /\ panic' = IF e = "ok" THEN "none" ELSE "main.rs:344"
    /\ BenchUnchanged

\* WRBench: storage.put(&lump_id, &lump_data).unwrap(), then the branch on c:
\* the key is pushed, or the keys of keystore are about to be read
WRPut(e) ==
    /\ Looping("WRBench", "put")
    /\ IF e # "ok"
       THEN /\ bench' = [bench EXCEPT !.failed = TRUE]
            /\ panic' = "main.rs:345"
       ELSE /\ panic' = "none"
            /\ IF bench.c < marching_len - 1
               THEN bench' = [bench EXCEPT !.puts = @ + 1, !.pc = "alloc",
                                           !.keystore = Append(@, bench.i),
                                           !.c = @ + 1, !.i = @ + 1]
               ELSE IF bench.keystore = <<>>
               THEN bench' = [bench EXCEPT !.puts = @ + 1, !.pc = "alloc",
                                           !.c = 0, !.i = @ + 1]
               ELSE bench' = [bench EXCEPT !.puts = @ + 1, !.pc = "get", !.r = 1]
    /\ BenchUnchanged

\* WRBench without keystore.clear(): the keys read stay in keystore
WRGet_unclearing(e) ==
    /\ Looping("WRBench", "get")
    /\ IF bench.r < Len(bench.keystore)
       THEN bench' = [bench EXCEPT !.r = @ + 1, !.failed = @ \/ e # "ok",
                                   !.reads = Append(@, bench.keystore[bench.r])]
       ELSE bench' = [bench EXCEPT !.r = 0, !.failed = @ \/ e # "ok",
                                   !.reads = Append(@, bench.keystore[bench.r]),
                                   !.c = 0, !.i = @ + 1, !.pc = "alloc"]
    /\ UNCHANGED panic
    /\ BenchUnchanged

\* WRBench: let _ = storage.get(k) for the next k of keystore; after the last
\* one keystore.clear(), c = 0 and the next i
WRGet(e) ==
    /\ Looping("WRBench", "get")
    /\ IF bench.r < Len(bench.keystore)
       THEN bench' = [bench EXCEPT !.r = @ + 1, !.failed = @ \/ e # "ok",
                                   !.reads = Append(@, bench.keystore[bench.r])]
       ELSE bench' = [bench EXCEPT !.r = 0, !.failed = @ \/ e # "ok",
                                   !.reads = Append(@, bench.keystore[bench.r]),
                                   !.keystore = <<>>, !.c = 0, !.i = @ + 1,
                                   !.pc = "alloc"]
    /\ UNCHANGED panic
    /\ BenchUnchanged

\* after the loop: if let Ok(elapsed) = now.elapsed() { println!("total = ..") }
BenchReport(clock) ==
    /\ panic = "none"
    /\ bench.phase = "running"
    /\ bench.pc = "alloc"
    /\ ~InRange(bench.i)
    /\ bench' = [bench EXCEPT !.phase = "done", !.reported = clock = "ok"]
    /\ UNCHANGED panic
    /\ BenchUnchanged

InitWBench ==
    /\ HandleInit
    /\ repl = "off"
    /\ \E hi \in {0, 1}, count \in Counts, size \in Sizes :
           BenchArgs("WBench", hi, count, size)

NextWBench ==
    \/ \E n \in NvmOutcomes, e \in CreateOutcomes : CreateStorageForBenchmark(n, e)
    \/ BenchStart
    \/ \E e \in CallOutcomes : WAlloc(e) \/ WPut(e) \/ WSync(e)
    \/ \E clock \in ClockOutcomes : BenchReport(clock)

SpecWBench == InitWBench /\ [][NextWBench]_vars

InitWRBench ==
    /\ HandleInit
    /\ repl = "off"
    /\ \E count \in WRCounts, size \in WRSizes :
           BenchArgs("WRBench", 0, count, size)

NextWRBench ==
    \/ \E n \in NvmOutcomes, e \in CreateOutcomes : CreateStorageForBenchmark(n, e)
    \/ BenchStart
    \/ \E e \in CallOutcomes : WRAlloc(e) \/ WRPut(e) \/ WRGet(e)
    \/ \E clock \in ClockOutcomes : BenchReport(clock)

SpecWRBench == InitWRBench /\ [][NextWRBench]_vars

----------------------------------------------------------------------------
(* Claims about the key/value operations, checked under Spec.  Every step of   *)
(* Spec is a call of the facade, and ret' is the record of that call.         *)

NoNul(value) == \A i \in DOMAIN value : value[i] # 0

\* C1: once put_str(k, v) has succeeded for a non-empty text v without NUL,
\* get_string(k) returns Some(v) for as long as no later put or delete targets
\* k, whatever is put or deleted under other keys in between.
C1_RoundTrip ==
    \A k \in DOMAIN written :
        (written[k] # <<>> /\ NoNul(written[k]))
            => get_string(storage, k, "ok").res = Ok(Some(written[k]))

\* the value of a two-byte character is still read back after a call on another key
C1_Witness ==
    \E k \in DOMAIN written :
        /\ NoNul(written[k])
        /\ ret.op \in {"put_str", "delete_key"}
        /\ ret.res.ok
        /\ ret.arg # k
        /\ get_string(storage, k, "ok").res = Ok(Some(written[k]))

\* C2: put_str(k, v) returns true exactly when k had no value just before the
\* call, false exactly when it had one, and after a put over an existing value
\* get_string(k) returns the new value.
C2_Overwrite ==
    [][(ret'.op = "put_str" /\ ret'.res.ok)
          => LET k == ret'.arg
             IN /\ ret'.res.val = ~HasValue(storage, k)
                /\ \A v \in Values :
                       PutStr(k, v, "ok") => get_string(storage', k, "ok").res = Ok(Some(v))]_vars

\* a put reported an overwrite and the value read back is the one just put
C2_Witness ==
    /\ ret.op = "put_str"
    /\ ret.res = Ok(FALSE)
    /\ ret.arg \in DOMAIN written
    /\ get_string(storage, ret.arg, "ok").res = Ok(Some(written[ret.arg]))

\* C3: delete_key(k) returns true exactly when k had a value, and then
\* get_string(k) returns None until k is put again; on an absent key it returns
\* false and leaves the store as it was, so repeating it returns false again.
C3_Delete ==
    /\ [](\A k \in deleted : get_string(storage, k, "ok").res = Ok(None))
    /\ [][(ret'.op = "delete_key" /\ ret'.res.ok)
             => LET k == ret'.arg
                IN /\ ret'.res.val = HasValue(storage, k)
                   /\ get_string(storage', k, "ok").res = Ok(None)
                   /\ (~HasValue(storage, k) => storage' = storage)]_vars

\* a key was deleted (true), and a delete repeated on it returned false
C3_Witness ==
    /\ ret.op = "delete_key"
    /\ ret.res = Ok(FALSE)
    /\ ret.arg \in deleted
    /\ get_string(storage, ret.arg, "ok").res = Ok(None)

\* C4: all_keys() lists exactly the keys for which get_string returns Some,
\* each once; a put of a new key makes the list one longer and an overwrite
\* leaves its length alone, so N puts of N distinct keys into an empty store
\* give N elements.
C4_Enumeration ==
    /\ [](LET ks == all_keys(storage)
          IN /\ \A k \in Keys :
                    (k \in Range(ks)) <=> (\E v \in Values :
                        get_string(storage, k, "ok").res = Ok(Some(v)))
             /\ Cardinality(Range(ks)) = Len(ks)
             /\ Range(ks) \subseteq Keys)
    /\ [][(ret'.op = "put_str" /\ ret'.res.ok)
             => Len(all_keys(storage')) =
                    Len(all_keys(storage)) + (IF ret'.res.val THEN 1 ELSE 0)]_vars

\* every key holds a value, the list has as many elements, and an overwrite just happened
C4_Witness ==
    /\ Len(all_keys(storage)) = Cardinality(Keys)
    /\ ret.op = "put_str"
    /\ ret.res = Ok(FALSE)

----------------------------------------------------------------------------
(* Claims about the metrics server, checked under SpecMetrics *)

\* C5: after any sequence of start_metrics_server and finish_metrics_server
\* calls, at most one exporter exists at any time.
C5_AtMostOneExporter == Cardinality(LiveExporters(exporters)) <= 1

\* C6: when the server is running on port q, start_metrics_server(p), for p
\* equal to q or not, spawns no exporter, creates no channel, leaves the state
\* Running(q) and reports port q.
C6_StartWhenRunning ==
    [][\A p \in Ports :
          (tx # 0 /\ ret'.op = "start_metrics_server" /\ StartMetricsServer(p))
              => /\ exporters' = exporters
                 /\ tx' = tx
                 /\ port' = port
                 /\ ret'.res = [report |-> "already running", port |-> port]]_vars

\* a start on another port than the one in use was answered with the port in use
C6_Witness ==
    /\ ret.op = "start_metrics_server"
    /\ ret.res.report = "already running"
    /\ ret.arg # ret.res.port
    /\ tx # 0
    /\ port = ret.res.port

\* C7: when running, finish_metrics_server calls send once on the channel held
\* and the state becomes Stopped; when stopped, it sends nothing, leaves the
\* state Stopped and reports "not running" without a panic.  No channel is ever
\* sent on twice.
C7_Stop ==
    /\ [](\A i \in DOMAIN exporters : exporters[i].sends <= 1)
    /\ [][(ret'.op = "finish_metrics_server" /\ FinishMetricsServer)
             => IF tx # 0
                THEN /\ tx' = 0
                     /\ exporters'[tx].sends = exporters[tx].sends + 1
                     /\ \A i \in DOMAIN exporters \ {tx} : exporters'[i] = exporters[i]
                     /\ DOMAIN exporters' = DOMAIN exporters
                ELSE /\ tx' = 0
                     /\ exporters' = exporters
                     /\ ret'.res.report = "not running"
                     /\ panic' = "none"]_vars

\* a stop after a stop: the signal was sent once and the second call found nothing running
C7_Witness ==
    /\ ret.op = "finish_metrics_server"
    /\ ret.res.report = "not running"
    /\ tx = 0
    /\ \E i \in DOMAIN exporters : exporters[i].sends = 1

\* C8: whenever a shutdown sender is held, the exporter of the recorded port
\* exists and the receiving end of its channel has not been dropped, so that
\* the send of finish_metrics_server never fails.
C8_RunningHasLiveExporter ==
    /\ tx # 0 => (exporters[tx].state # "done" /\ exporters[tx].port = port)
    /\ panic # "handle.rs:76"

----------------------------------------------------------------------------
(* Claims about the benchmark sizing, checked under SpecBench *)

\* C9: for every count C >= 1 and size S >= 1 the file has capacity 2*C*S and
\* the journal ratio r satisfies r >= 0.01 and r * capacity >= 256*C, is raised
\* above 0.01 only when 1% of the capacity is less than 256*C, and is a valid
\* fraction of the capacity: not above 1.
C9_Sizing ==
    bench.phase \in {"created", "failed"}
        => LET C == bench.count
               S == bench.size
               r == bench.journal_ratio
           IN /\ bench.capacity = 2 * C * S
              /\ RatioLeq(Ratio(1, 100), r)
              /\ r.num * bench.capacity >= 256 * C * r.den
              /\ (r # Ratio(1, 100) => bench.capacity < 100 * 256 * C)
              /\ RatioLeq(r, Ratio(1, 1))

\* what the sizing does guarantee: the ratio is a fraction for records of 128 bytes or more
SizingOfLargeRecords ==
    bench.phase \in {"created", "failed"}
        => LET C == bench.count
               S == bench.size
               r == bench.journal_ratio
           IN /\ bench.capacity = 2 * C * S
              /\ RatioLeq(Ratio(1, 100), r)
              /\ r.num * bench.capacity >= 256 * C * r.den
              /\ (r # Ratio(1, 100) => bench.capacity < 100 * 256 * C)
              /\ (S >= 128 => RatioLeq(r, Ratio(1, 1)))

----------------------------------------------------------------------------
(* Claims about the REPL, checked under SpecRepl *)

\* the panics that report an error of the engine
EnginePanics ==
    {"handle.rs:111", "handle.rs:119", "handle.rs:142", "handle.rs:162",
     "handle.rs:171", "handle.rs:193", "handle.rs:196", "handle.rs:229"}

\* C10: no input line ends the session: whatever the line, handle_input returns
\* to the read loop without a panic, unless the engine reports an error.
C10_NoLineEndsSession == panic \in {"none"} \cup EnginePanics

\* lines of the form put, white space, decimal key, white space, rest: the rest
\* is not empty, holds no NUL and starts with a character that is not white space
WhiteSpaces == {<<32>>, <<32, 32>>, <<9>>}
\* "7", "07", "42"
PutKeys == {<<55>>, <<48, 55>>, <<52, 50>>}
\* "a", "a b", "hello world", "get 7", "list", "e-acute, two spaces, x, space"
PutRests ==
    {<<97>>, <<97, 32, 98>>,
     <<104, 101, 108, 108, 111, 32, 119, 111, 114, 108, 100>>,
     Kw_get \o <<32, 55>>, Kw_list, <<233, 32, 32, 120, 32>>}
PutForm ==
    {[w1 |-> w1, k |-> k, w2 |-> w2, rest |-> r] :
        w1 \in WhiteSpaces, k \in PutKeys, w2 \in WhiteSpaces, r \in PutRests}
PutLine(f) == Kw_put \o f.w1 \o f.k \o f.w2 \o f.rest

\* C11: a line put, white space, decimal key, white space, rest is dispatched as
\* one put of the decimal number with the whole rest of the line as the value,
\* inner spaces kept; and a put of the REPL (a step that is not a step of an
\* exporter fiber) touches the one key of a put line and nothing else: no other
\* operation is triggered.
C11_PutParsing ==
    /\ \A f \in PutForm :
           Dispatch(PutLine(f)) = [cmd |-> "put", key |-> DecValue(f.k), value |-> f.rest]
    /\ [][(ret'.op = "put" /\ exporters' = exporters)
            => /\ \E line \in Lines :
                      /\ Dispatched[line].cmd = "put"
                      /\ Dispatched[line].key = ret'.arg
                      /\ ret'.res.ok => /\ ret'.arg \in DOMAIN storage'
                                        /\ storage'[ret'.arg] = as_bytes(Dispatched[line].value)
               /\ \A k \in (DOMAIN storage \cup DOMAIN storage') \ {ret'.arg} :
                      /\ k \in DOMAIN storage /\ k \in DOMAIN storage'
                      /\ storage'[k] = storage[k]
               /\ UNCHANGED <<tx, port, repl>>]_vars

\* "put 7 a b" typed: key 7 holds "a b"
C11_Witness ==
    /\ repl = "reading"
    /\ ret.op = "put"
    /\ ret.arg = 7
    /\ ret.res.ok
    /\ 7 \in DOMAIN written
    /\ written[7] = <<97, 32, 98>>
    /\ storage[7] = as_bytes(<<97, 32, 98>>)

----------------------------------------------------------------------------
(* Claims about put, checked under SpecFacade *)

\* C12: on every put path the value is checked before the engine is called: a
\* value that is not UTF-8 text or that holds a NUL byte is refused with no
\* engine call, so no lump of the store ever holds such bytes.
C12_ValueCheckedBeforeEngine ==
    \A k \in DOMAIN storage : from_utf8(storage[k]).ok /\ NoNul(storage[k])

----------------------------------------------------------------------------
(* Claims about the command line, checked under SpecOneShot *)

\* the arguments a command needs: --capacity, --key and --value, --count and --size
Needed(command) ==
    CASE command = "Create" -> {"capacity"}
      [] command = "Put" -> {"lumpid", "data"}
      [] command \in {"Get", "Delete"} -> {"lumpid"}
      [] command \in {"WBench", "WRBench"} -> {"count", "size"}
      [] OTHER -> {}

\* C13: for every command and every set of arguments given, the engine is not
\* touched unless all the arguments the command needs are there; a command line
\* without one of them is rejected when it is parsed, and main unwraps no
\* argument that is missing.
C13_ParameterValidation ==
    opt.phase # "off"
        => /\ opt.engine # "untouched" => Needed(opt.command) \subseteq opt.args
           /\ (opt.phase # "argv" /\ ~(Needed(opt.command) \subseteq opt.args))
                  => opt.phase = "rejected"
           /\ opt.phase = "rejected" => (opt.engine = "untouched" /\ panic = "none")
           /\ panic \notin {UnwrapSite(c) : c \in CommandNames} \ {"none"}

\* Put with --key and --data has opened the storage
C13_Witness ==
    /\ opt.phase = "ran"
    /\ opt.command = "Put"
    /\ opt.engine = "opened"
    /\ {"lumpid", "data"} \subseteq opt.args

\* Put without --data was rejected
C13_Rejected ==
    /\ opt.phase = "rejected"
    /\ opt.command = "Put"
    /\ opt.args = {"storage_path", "lumpid"}

----------------------------------------------------------------------------
(* Claims about the end of the REPL, checked under SpecReplFinite *)

\* C14: the loop of Open ends exactly when readline reports Interrupted, Eof or
\* another error: it leaves "reading" only by such a report and every such
\* report ends it; once it has ended no step follows, so no engine operation is
\* issued any more; and with a finite input the loop ends, unless the process
\* has panicked before.
C14_ReplTermination ==
    /\ [](ret.op = "readline" <=> repl = "exited")
    /\ [](ret.op = "readline" => (~ret.res.ok /\ ret.res.why \in ReadlineErrors))
    /\ [][repl' # repl => (repl = "reading" /\ repl' = "exited" /\ ret'.op = "readline")]_vars
    /\ [][repl # "exited"]_vars
    /\ <>(repl = "exited" \/ panic # "none")

\* the loop has ended on Eof after a put was done
C14_Witness ==
    /\ repl = "exited"
    /\ ret.op = "readline"
    /\ ret.res.why = "Eof"
    /\ panic = "none"
    /\ storage # EmptyStorage

----------------------------------------------------------------------------
(* Claims about metrics(), checked under SpecRepl *)

\* C15: metrics() never waits: called while another thread holds the gatherer
\* it returns None and leaves the gatherer to its holder; called while the
\* gatherer is free it returns Some(text) and the gatherer is free again when
\* it returns; the store, the metrics server and the loop are left as they are.
C15_MetricsNeverBlocks ==
    [][(ret'.op = "metrics" /\ exporters' = exporters)
          => /\ ~ret'.blocked
             /\ ret'.arg = "held" => (ret'.res = None /\ ret'.gatherer = "held")
             /\ ret'.arg = "free" => (ret'.res.some /\ ret'.gatherer = "free")
             /\ UNCHANGED <<storage, tx, port, panic, repl>>]_vars

\* metrics was typed while the gatherer was held, with the server running and a lump stored
C15_Witness ==
    /\ ret.op = "metrics"
    /\ ret.arg = "held"
    /\ ret.res = None
    /\ tx # 0
    /\ storage # EmptyStorage
    /\ panic = "none"

\* metrics was typed while the gatherer was free
C15_Free ==
    /\ ret.op = "metrics"
    /\ ret.arg = "free"
    /\ ret.res.some

----------------------------------------------------------------------------
(* Claims about WBench, checked under SpecWBench *)

\* C16: for every count and size of the command line the records written are
\* those the storage was sized for, and the total reported is count * size for
\* the count given: the loop never writes a record beyond the count used for
\* the sizing, and a finished run has written that many records and reports
\* the product of the count and the size given.
C16_BenchTotal ==
    bench.phase \in {"running", "done"}
        => /\ \A j \in DOMAIN bench.log :
                  bench.log[j].call = "put" => bench.log[j].arg < bench.sized
           /\ bench.phase = "done"
                  => /\ opt.count_hi = 0
                     /\ bench.puts = bench.sized
                     /\ bench.total = opt.count * opt.size

----------------------------------------------------------------------------
(* Claims about WRBench, checked under SpecWRBench *)

\* C17: the writes of WRBench go in windows of marching_len; the keys of a
\* window are read only when its last write is done, and then each of them,
\* the last one included, is read once: between two iterations the keys read
\* so far are exactly the keys of the complete windows, every one once, and no
\* key of a window that is not complete is ever read.
C17_MarchingWindow ==
    bench.phase \in {"running", "done"}
        => LET full == (bench.puts \div marching_len) * marching_len
           IN /\ \A j \in DOMAIN bench.reads : bench.reads[j] < full
              /\ bench.pc = "get" => bench.puts % marching_len = 0
              /\ bench.pc = "alloc"
                     => /\ Len(bench.reads) = full
                        /\ Range(bench.reads) = 0..(full - 1)

----------------------------------------------------------------------------
(* Claims about the order of WBench, checked under SpecWBench *)

\* the calls of one iteration of WBench
WBenchCalls == <<"allocate", "put", "journal_sync">>

\* the log of WBench is allocate, put, journal_sync for the keys 0, 1, 2, ..
\* in this order, every record of len bytes, all zero; a failed call is the
\* last call made; a finished run has made the calls of count records
WriteOrdering(len) ==
    bench.phase \in {"running", "done"}
        => /\ \A j \in DOMAIN bench.log :
                  LET key == (j - 1) \div 3
                      call == WBenchCalls[((j - 1) % 3) + 1]
                  IN /\ bench.log[j].call = call
                     /\ bench.log[j].arg = IF call = "allocate"
                                           THEN [len |-> len, byte |-> 0] ELSE key
                     /\ bench.log[j].res # "ok" => (j = Len(bench.log) /\ panic # "none")
           /\ panic # "none" => (bench.log # <<>> /\ bench.log[Len(bench.log)].res # "ok")
           /\ bench.phase = "done"
                  => /\ opt.count_hi = 0
                     /\ Len(bench.log) = 3 * opt.count
                     /\ bench.puts = opt.count

\* C18: WBench writes count records with the keys 0, 1, .., count - 1 in this
\* order, each of them size bytes long and filled with zeros, each write
\* followed by a journal sync before the next write starts; a failed
\* allocation, write or sync is the last call of the run.
C18_WriteOrdering == WriteOrdering(opt.size)

\* C18, as stated: the same with every record zero bytes long.
C18_ZeroByteRecords == WriteOrdering(0)

\* a run of three records has finished: nine calls
C18_Witness ==
    /\ bench.phase = "done"
    /\ opt.command = "WBench"
    /\ opt.count = 3
    /\ Len(bench.log) = 9
    /\ bench.log[8] = Call("put", 2, "ok")
    /\ bench.log[9] = Call("journal_sync", 2, "ok")

\* a run has stopped on a failed sync after its second write
C18_Aborted ==
    /\ panic = "main.rs:321"
    /\ Len(bench.log) = 6
    /\ bench.puts = 2

----------------------------------------------------------------------------
(* Claims about failures in the benchmarks, checked under SpecWRBench *)

\* C19: an engine failure ends a benchmark in every phase: when the creation of
\* the storage has failed, or any allocation, write, sync or read of the loop,
\* the process has panicked; no failure is passed over, and no total is
\* reported after a failed engine call.
C19_FailuresAreFatal ==
    /\ bench.phase = "failed" => panic # "none"
    /\ bench.phase \in {"running", "done"}
           => /\ bench.failed => panic # "none"
              /\ bench.reported => ~bench.failed

----------------------------------------------------------------------------
(* Claims about journal_gc, checked under SpecRepl *)

\* C20: journal_gc calls the journal sync first and the GC pass only after the
\* sync has succeeded; after a failed sync the GC pass is not started; each of
\* the two is called once at most; and when one of them has failed the process
\* has panicked and no success is reported.
C20_JournalGcOrdering ==
    ret.op = "journal_gc"
        => LET calls == ret.arg
           IN /\ Len(calls) \in {1, 2}
              /\ calls[1].call = "journal_sync"
              /\ Len(calls) = 2 <=> calls[1].res = "ok"
              /\ Len(calls) = 2 => calls[2].call = "journal_gc"
              /\ IF \E j \in DOMAIN calls : calls[j].res # "ok"
                 THEN panic \in {"handle.rs:193", "handle.rs:196"} /\ ~ret.res.ok
                 ELSE panic = "none" /\ ret.res = Ok("succeeded")

\* journal_gc was typed and the sync failed: one call, and the panic of the sync
C20_Witness ==
    /\ ret.op = "journal_gc"
    /\ Len(ret.arg) = 1
    /\ ret.arg[1] = [call |-> "journal_sync", res |-> "err"]
    /\ panic = "handle.rs:193"

\* journal_gc was typed and both calls succeeded
C20_Succeeded ==
    /\ ret.op = "journal_gc"
    /\ Len(ret.arg) = 2
    /\ ret.res = Ok("succeeded")
    /\ panic = "none"

----------------------------------------------------------------------------
(* Claims about the fields tx and port, checked under SpecMetrics *)

\* C21: in every state reached by calls of start_metrics_server and
\* finish_metrics_server a held sender comes with a recorded port, and that port
\* is the argument of the start that made the last step from Stopped to Running:
\* it is the port of the exporter whose sender is held, it is set by that start
\* and is not changed while the sender is held; so the unwrap of port in the
\* "already running" report never panics, and a start(q) after a stop gives
\* Running(q).
C21_SenderImpliesPort ==
    /\ [](tx # 0 => (port # -1 /\ port = exporters[tx].port))
    /\ [](panic # "handle.rs:44")
    /\ [][(tx = 0 /\ tx' # 0)
             => (ret'.op = "start_metrics_server" /\ port' = ret'.arg)]_vars
    /\ [][(tx # 0 /\ tx' # 0) => port' = port]_vars

\* started on one port, stopped, and started on the other: Running on the other
C21_Witness ==
    /\ tx = 2
    /\ ret.op = "start_metrics_server"
    /\ ret.res.report = "started"
    /\ exporters[1].sends = 1
    /\ exporters[1].port # exporters[2].port
    /\ port = exporters[2].port
    /\ port = ret.arg

----------------------------------------------------------------------------
(* Claims about the locals of the WRBench loop, checked under SpecWRBench *)

\* C22: at the start of every iteration of the WRBench loop the counter c is
\* the number of keys in keystore and lies in 0..99, and keystore holds, in the
\* order they were written, the keys written so far in the current window (the
\* window starts at a multiple of marching_len and every key below i has been
\* written); and in every state keystore holds at most marching_len keys, its
\* initial capacity.
C22_LoopInvariant ==
    bench.phase \in {"running", "done"}
        => /\ Len(bench.keystore) <= marching_len
           /\ bench.pc = "alloc"
                  => /\ bench.c = Len(bench.keystore)
                     /\ bench.c \in 0..(marching_len - 1)
                     /\ bench.puts = bench.i
                     /\ (bench.i - bench.c) % marching_len = 0
                     /\ \A j \in DOMAIN bench.keystore :
                            bench.keystore[j] = bench.i - bench.c + j - 1

\* the start of the last iteration of the second window: 99 keys are held and
\* the keys of the first window have been read and cleared
C22_Witness ==
    /\ bench.phase = "running"
    /\ bench.pc = "alloc"
    /\ panic = "none"
    /\ bench.c = marching_len - 1
    /\ Len(bench.keystore) = marching_len - 1
    /\ bench.keystore[1] = marching_len
    /\ bench.reads # <<>>
    /\ InRange(bench.i)

====
